---- MODULE Spec2Model ----
(***************************************************************************)
(* Bulk-Mailer, src/app.py: the background send pipeline                   *)
(* send_emails_background, one thread per submitted job, with the jobs and *)
(* failed_emails tables and the module-level rate-limit globals.           *)
(*                                                                         *)
(* Two names the pipeline uses are bound nowhere in the module:            *)
(*   timedelta  (lines 282, 299; line 9 imports only datetime)             *)
(*   socket     (lines 421, 424; no import socket in lines 1-16)           *)
(* Python looks a global name up when the expression is evaluated, so      *)
(*   - line 282, the first statement of the rate-limit critical section,   *)
(*     raises NameError for the first recipient of every job: lines        *)
(*     283-408 (the pause logic, render, sendmail, the per-recipient       *)
(*     handlers) are never executed;                                       *)
(*   - an exception that reaches the clause "except socket.gaierror" of    *)
(*     line 421 raises NameError while that clause is evaluated: the       *)
(*     clauses of lines 421-435 handle nothing, the finally block runs     *)
(*     with connection_error = None and the NameError leaves the thread.   *)
(* ModuleNames, NameBound and ExceptFrom below model this lookup.          *)
(***************************************************************************)
EXTENDS Integers, Sequences, FiniteSets, TLC

\* ------------------------------------------------------------------ bounds
NumJobs == 2
MaxRows == 2
MaxFairRows == 1

Jobs == 1..NumJobs

\* ------------------------------------------------------- program constants
SMTP_HOURLY_LIMIT == 300

\* A column of the jobs table that holds no value yet (total_emails INTEGER).
NULL == -1

\* --------------------------------------------------------- name resolution
\* The global names the module binds: its imports and its assignments.
ModuleNames ==
    { "os", "csv", "smtplib", "ssl", "threading", "uuid", "sqlite3", "time",
      "datetime", "MIMEMultipart", "MIMEText", "Flask", "request",
      "render_template", "redirect", "url_for", "flash", "g",
      "secure_filename", "Template", "hourly_sent_count",
      "current_hour_start_time", "rate_limit_lock", "SMTP_HOURLY_LIMIT",
      "UPLOAD_FOLDER", "ALLOWED_EXTENSIONS_CSV", "ALLOWED_EXTENSIONS_HTML",
      "DATABASE", "app" }

\* Names found in builtins when the module does not bind them.
Builtins == { "Exception", "ValueError", "FileNotFoundError" }

NameBound(n) == n \in ModuleNames \cup Builtins

\* ------------------------------------------------------- exception classes
\* The direct base class of each exception class the pipeline can meet.
ExcBase ==
    [ SMTPAuthenticationError |-> "SMTPResponseException",
      SMTPConnectError        |-> "SMTPResponseException",
      SMTPResponseException   |-> "SMTPException",
      SMTPServerDisconnected  |-> "SMTPException",
      SMTPException           |-> "OSError",
      gaierror                |-> "OSError",
      timeout                 |-> "OSError",
      SSLError                |-> "OSError",
      ConnectionRefusedError  |-> "OSError",
      OSError                 |-> "Exception",
      NameError               |-> "Exception",
      Exception               |-> "BaseException" ]

RECURSIVE IsInstance(_, _)
IsInstance(e, cls) ==
    IF e = cls THEN TRUE
    ELSE IF e \in DOMAIN ExcBase THEN IsInstance(ExcBase[e], cls)
    ELSE FALSE

\* The except clauses of the SMTP try statement, in source order: the global
\* name the clause's expression starts from, the class, and the value the
\* handler gives connection_error.
ExceptClauses ==
    << [name |-> "smtplib", cls |-> "SMTPAuthenticationError",
        msg |-> "Failed: SMTP Authentication Error"],
       [name |-> "smtplib", cls |-> "SMTPConnectError",
        msg |-> "Failed: Could not connect to SMTP server"],
       [name |-> "smtplib", cls |-> "SMTPServerDisconnected",
        msg |-> "Failed: SMTP server disconnected unexpectedly during setup"],
       [name |-> "socket", cls |-> "gaierror",
        msg |-> "Failed: SMTP server address not found"],
       [name |-> "socket", cls |-> "timeout",
        msg |-> "Failed: Connection to SMTP server timed out"],
       [name |-> "ssl", cls |-> "SSLError",
        msg |-> "Failed: SSL Error during connection/TLS"],
       [name |-> "smtplib", cls |-> "SMTPException",
        msg |-> "Failed: SMTP Error during setup"],
       [name |-> "Exception", cls |-> "Exception",
        msg |-> "Failed: Unexpected Error during setup"] >>

\* Python evaluates the clauses in order until one matches. Evaluating a
\* clause whose name is unbound raises NameError, which replaces the
\* exception in flight and leaves the try statement unhandled.
RECURSIVE ExceptFrom(_, _)
ExceptFrom(i, e) ==
    IF i > Len(ExceptClauses)
      THEN [handled |-> FALSE, connection_error |-> "None", exc |-> e]
    ELSE IF ~NameBound(ExceptClauses[i].name)
      THEN [handled |-> FALSE, connection_error |-> "None", exc |-> "NameError"]
    ELSE IF IsInstance(e, ExceptClauses[i].cls)
      THEN [handled |-> TRUE, connection_error |-> ExceptClauses[i].msg,
            exc |-> "none"]
    ELSE ExceptFrom(i + 1, e)

\* ----------------------------------------------------------- uploaded files
\* A cell of the recipient file is a sequence of one-character strings.
PaddedEmail == << " ", "a", "@", "b", " " >>
NoAtEmail   == << " ", "n", "o" >>
PaddedName  == << " ", "A", "l", " " >>

\* Data rows under a two-column header. A row with fewer fields than the
\* header leaves the missing column None in csv.DictReader.
RowSet == { << PaddedName, PaddedEmail >>, << PaddedName, NoAtEmail >>,
            << PaddedName >> }

RECURSIVE SeqsUpTo(_, _)
SeqsUpTo(S, n) ==
    IF n = 0 THEN { << >> }
    ELSE LET shorter == SeqsUpTo(S, n - 1)
         IN  shorter \cup { Append(s, x) : s \in shorter, x \in S }

GoodHeaders == { << "FirstName", "Email" >>, << "FIRSTNAME", "email" >> }
BadHeaders  == { << "FirstName", "Mail" >>, << >> }

MissingFile == [exists |-> FALSE, fieldnames |-> << >>, rows |-> << >>]

CsvFiles ==
    { MissingFile }
    \cup { [exists |-> TRUE, fieldnames |-> h, rows |-> << >>] : h \in BadHeaders }
    \cup { [exists |-> TRUE, fieldnames |-> h, rows |-> r] :
             h \in GoodHeaders, r \in SeqsUpTo(RowSet, MaxRows) }

\* The template file: absent, not compilable by jinja2, or compilable.
HtmlFiles == { "missing", "syntax_error", "ok" }

\* str.lower() on the header names that occur.
Lower ==
    [ FirstName |-> "firstname", FIRSTNAME |-> "firstname",
      Email |-> "email", email |-> "email", Mail |-> "mail" ]

IsSpace(c) == c = " "

\* str.strip(): drop leading and trailing whitespace.
RECURSIVE LStrip(_)
LStrip(s) ==
    IF s = << >> THEN s
    ELSE IF IsSpace(Head(s)) THEN LStrip(Tail(s))
    ELSE s

RECURSIVE RStrip(_)
RStrip(s) ==
    IF s = << >> THEN s
    ELSE IF IsSpace(s[Len(s)]) THEN RStrip(SubSeq(s, 1, Len(s) - 1))
    ELSE s

Strip(s) == RStrip(LStrip(s))

Contains(s, c) == \E i \in 1..Len(s) : s[i] = c

\* next((name for name in reader.fieldnames if name.lower() == want), None)
\* as a column index.
ColumnOf(fieldnames, want) ==
    LET hits == { i \in 1..Len(fieldnames) : Lower[fieldnames[i]] = want }
    IN  CHOOSE i \in hits : \A k \in hits : i <= k

\* The loop over the data rows: fc and ec are the FirstName and Email
\* columns, acc the recipients appended so far. row.get(col, '') is None for
\* a column the row is too short for, and None.strip() raises AttributeError.
\* csv.DictReader skips rows without any field.
RECURSIVE ReadRows(_, _, _, _, _)
ReadRows(rows, i, fc, ec, acc) ==
    IF i > Len(rows) THEN [error |-> "none", recipients |-> acc]
    ELSE IF rows[i] = << >> THEN ReadRows(rows, i + 1, fc, ec, acc)
    ELSE IF ec > Len(rows[i]) \/ fc > Len(rows[i])
      THEN [error |-> "AttributeError", recipients |-> acc]
    ELSE LET email_addr == Strip(rows[i][ec])
             first_name == Strip(rows[i][fc])
         IN  IF email_addr # << >> /\ Contains(email_addr, "@")
               THEN ReadRows(rows, i + 1, fc, ec,
                      Append(acc, [email |-> email_addr,
                                   first_name |-> first_name]))
               ELSE ReadRows(rows, i + 1, fc, ec, acc)

\* Step 1 of the pipeline up to the end of the with block.
ParseCSV(f) ==
    IF ~f.exists THEN [error |-> "FileNotFoundError", recipients |-> << >>]
    ELSE LET fieldnames_lower ==
                 { Lower[f.fieldnames[i]] : i \in 1..Len(f.fieldnames) }
         IN  IF "firstname" \notin fieldnames_lower
                \/ "email" \notin fieldnames_lower
               THEN [error |-> "ValueError", recipients |-> << >>]
               ELSE ReadRows(f.rows, 1, ColumnOf(f.fieldnames, "firstname"),
                             ColumnOf(f.fieldnames, "email"), << >>)

\* -------------------------------------------------------- final job status
\* The finally block's choice of the final status and counts from
\* connection_error and the loop's counters. The second branch repeats the
\* first branch's test, so it is never taken.
\* Messages are modelled whole, so a message starts with a prefix when it is
\* that prefix; no value connection_error takes starts with this one.
StartsWith(s, prefix) == s = prefix

FinalStatus(connection_error, sent_count, failed_count, total_emails) ==
    IF connection_error # "None" THEN connection_error
    ELSE IF connection_error # "None"
            /\ StartsWith(connection_error, "Error: Server Disconnected")
      THEN connection_error
    ELSE IF failed_count = 0 /\ sent_count = total_emails THEN "Completed"
    ELSE IF failed_count > 0 /\ sent_count > 0 THEN "Partial Failure"
    ELSE IF failed_count = total_emails /\ sent_count = 0
      THEN "Failed: All emails"
    ELSE IF sent_count = 0 /\ failed_count = 0 /\ total_emails > 0
      THEN "Failed: Unknown (No emails sent or failed)"
    ELSE IF total_emails = 0 THEN "Completed (No recipients)"
    ELSE "Completed with errors (check counts)"

\* FinalFailedCount with the header row counted among the failed.
FinalFailedCount_CountsHeader(connection_error, failed_count, total_emails) ==
    IF connection_error # "None" THEN total_emails + 1 ELSE failed_count

FinalFailedCount(connection_error, failed_count, total_emails) ==
    IF connection_error # "None" THEN total_emails ELSE failed_count

FinalSentCount(connection_error, sent_count) ==
    IF connection_error # "None" THEN 0 ELSE sent_count

\* -------------------------------------------------------------------- state
VARIABLES
    hourly_sent_count,        \* module global, line 19
    current_hour_start_time,  \* module global, line 20
    rate_limit_lock,          \* the set of threads holding the lock (line 21)
    jobs,                     \* the jobs table, keyed by job
    failed_emails,            \* the failed_emails table, in insertion order
    pc,                       \* where each job's thread is
    recipients, total_emails, sent_count, failed_count,
    initial_error, connection_error,
    email_template,           \* "None", or "Template" once jinja2 compiled it
    server,                   \* TRUE once the thread holds an SMTP object
    exc,                      \* the exception in flight in the thread
    raised,                   \* the first exception the thread raised: its
                              \* class and the step that raised it
    smtp_calls,               \* the SMTP calls each thread made, in order
    csv_file,                 \* the file under each job's csv_path, where
                              \* the specification follows one (SpecParse);
                              \* Spec draws the file when the thread reads it
    transport                 \* the relay's answer to the i-th message of
                              \* the session, were it handed one

vars == << hourly_sent_count, current_hour_start_time, rate_limit_lock, jobs,
           failed_emails, pc, recipients, total_emails, sent_count,
           failed_count, initial_error, connection_error, email_template,
           server, exc, raised, smtp_calls, csv_file, transport >>

rate_vars == << hourly_sent_count, current_hour_start_time >>
locals == << recipients, total_emails, sent_count, failed_count,
             initial_error, connection_error, email_template, server >>

\* What the relay can answer to one message.
TransportAnswers == { "accept", "SendRejected", "TransportClosed" }

\* The value of csv_file for a job whose file the specification does not
\* follow.
NotFollowed == [exists |-> FALSE, fieldnames |-> << "-" >>, rows |-> << >>]

\* The row index() inserts; the schema's defaults fill the other columns.
NewJob ==
    [ status |-> "Pending", total_emails |-> NULL, sent_count |-> 0,
      failed_count |-> 0, start_time |-> "NULL", end_time |-> "NULL" ]

Init ==
    /\ hourly_sent_count = 0
    /\ current_hour_start_time = 0
    /\ rate_limit_lock = {}
    /\ jobs = << >>
    /\ failed_emails = << >>
    /\ pc = [j \in Jobs |-> "idle"]
    /\ recipients = [j \in Jobs |-> << >>]
    /\ total_emails = [j \in Jobs |-> 0]
    /\ sent_count = [j \in Jobs |-> 0]
    /\ failed_count = [j \in Jobs |-> 0]
    /\ initial_error = [j \in Jobs |-> "None"]
    /\ connection_error = [j \in Jobs |-> "None"]
    /\ email_template = [j \in Jobs |-> "None"]
    /\ server = [j \in Jobs |-> FALSE]
    /\ exc = [j \in Jobs |-> "none"]
    /\ raised = [j \in Jobs |-> [exc |-> "none", at |-> "none"]]
    /\ smtp_calls = [j \in Jobs |-> << >>]
    /\ transport = [j \in Jobs |-> << >>]
    /\ csv_file = [j \in Jobs |-> NotFollowed]

\* UpdateJob without its WHERE clause: every row takes the fields.
UpdateJob_NoWhere(j, fields) ==
    [k \in DOMAIN jobs |-> [c \in DOMAIN jobs[k] |->
        IF c \in DOMAIN fields THEN fields[c] ELSE jobs[k][c]]]

\* UPDATE jobs SET ... WHERE job_uuid = j
UpdateJob(j, fields) ==
    [jobs EXCEPT ![j] = [c \in DOMAIN jobs[j] |->
        IF c \in DOMAIN fields THEN fields[c] ELSE jobs[j][c]]]

\* ------------------------------------------------------------------ actions
\* index(), POST: insert the Pending row and start the job's thread.
Submit(j) ==
    /\ pc[j] = "idle"
    /\ jobs' = jobs @@ (j :> NewJob)
    /\ pc' = [pc EXCEPT ![j] = "start"]
    /\ UNCHANGED << csv_file, rate_vars, rate_limit_lock, failed_emails,
                    locals, exc, raised, smtp_calls, transport >>

\* Begin with a first write that sets the start time and leaves the status.
Begin_WithoutStatus(j) ==
    /\ pc[j] = "start"
    /\ \E db_ok \in BOOLEAN :
         IF db_ok
           THEN /\ jobs' = UpdateJob(j, [start_time |-> "set"])
                /\ pc' = [pc EXCEPT ![j] = "read_csv"]
           ELSE /\ jobs' = jobs
                /\ pc' = [pc EXCEPT ![j] = "returned"]
    /\ UNCHANGED << csv_file, rate_vars, rate_limit_lock, failed_emails,
                    locals, exc, raised, smtp_calls, transport >>

\* The thread's first write: status Running with the start time. When the
\* write raises sqlite3.Error the thread returns and the row stays Pending.
Begin(j) ==
    /\ pc[j] = "start"
    /\ \E db_ok \in BOOLEAN :
         IF db_ok
           THEN /\ jobs' = UpdateJob(j, [status |-> "Running",
                                         start_time |-> "set"])
                /\ pc' = [pc EXCEPT ![j] = "read_csv"]
           ELSE /\ jobs' = jobs
                /\ pc' = [pc EXCEPT ![j] = "returned"]
    /\ UNCHANGED << csv_file, rate_vars, rate_limit_lock, failed_emails,
                    locals, exc, raised, smtp_calls, transport >>

\* Step 1: read the recipient file, then persist total_emails. Any exception
\* of the block, the UPDATE's sqlite3.Error included, becomes initial_error.
ReadCSVFile(j, f, db_ok) ==
    /\ pc[j] = "read_csv"
    /\   LET r == ParseCSV(f)
             n == Len(r.recipients)
         IN  /\ recipients' = [recipients EXCEPT ![j] = r.recipients]
             /\ IF r.error = "none"
                  THEN /\ total_emails' = [total_emails EXCEPT ![j] = n]
                       /\ IF db_ok
                            THEN /\ jobs' = UpdateJob(j, [total_emails |-> n])
                                 /\ initial_error' = [initial_error EXCEPT ![j] =
                                      IF n = 0
                                        THEN "Completed (No valid recipients found)"
                                        ELSE "None"]
                            ELSE /\ jobs' = jobs
                                 /\ initial_error' = [initial_error EXCEPT ![j] =
                                      "Failed: Unexpected error reading CSV"]
                  ELSE /\ db_ok   \* no write is reached on this path
                       /\ UNCHANGED << total_emails, jobs >>
                       /\ initial_error' = [initial_error EXCEPT ![j] =
                            CASE r.error = "FileNotFoundError"
                                   -> "Failed: CSV file not found"
                              [] r.error = "ValueError"
                                   -> "Failed: Error reading CSV"
                              [] OTHER
                                   -> "Failed: Unexpected error reading CSV"]
    /\ pc' = [pc EXCEPT ![j] = "read_html"]
    /\ UNCHANGED << csv_file, rate_vars, rate_limit_lock, failed_emails, sent_count,
                    failed_count, connection_error, email_template, server,
                    exc, raised, smtp_calls, transport >>

ReadCSV(j) ==
    \E f \in CsvFiles, db_ok \in BOOLEAN : ReadCSVFile(j, f, db_ok)

\* ReadHTML opening and compiling the template whatever step 1 found.
ReadHTML_Always(j) ==
    /\ pc[j] = "read_html"
    /\ \E html \in HtmlFiles :
         /\ initial_error' = [initial_error EXCEPT ![j] =
               CASE html = "missing" -> "Failed: HTML template not found"
                 [] html = "syntax_error" -> "Failed: Error reading HTML"
                 [] OTHER -> "None"]
         /\ email_template' = [email_template EXCEPT ![j] =
               IF html = "ok" THEN "Template" ELSE "None"]
    /\ pc' = [pc EXCEPT ![j] = "check_initial"]
    /\ UNCHANGED << csv_file, rate_vars, rate_limit_lock, jobs, failed_emails,
                    recipients, total_emails, sent_count, failed_count,
                    connection_error, server, exc, raised, smtp_calls,
                    transport >>

\* Step 2: open and compile the template, only when step 1 left no error and
\* found recipients.
ReadHTML(j) ==
    /\ pc[j] = "read_html"
    /\ IF initial_error[j] = "None" /\ total_emails[j] > 0
         THEN \E html \in HtmlFiles :
                /\ initial_error' = [initial_error EXCEPT ![j] =
                      CASE html = "missing" -> "Failed: HTML template not found"
                        [] html = "syntax_error" -> "Failed: Error reading HTML"
                        [] OTHER -> "None"]
                /\ email_template' = [email_template EXCEPT ![j] =
                      IF html = "ok" THEN "Template" ELSE "None"]
         ELSE UNCHANGED << initial_error, email_template >>
    /\ pc' = [pc EXCEPT ![j] = "check_initial"]
    /\ UNCHANGED << csv_file, rate_vars, rate_limit_lock, jobs, failed_emails,
                    recipients, total_emails, sent_count, failed_count,
                    connection_error, server, exc, raised, smtp_calls,
                    transport >>

\* "if initial_error": write it as the status with the end time and return.
\* A sqlite3.Error of this write is printed and the thread returns anyway.
StopEarly(j) ==
    /\ pc[j] = "check_initial"
    /\ initial_error[j] # "None"
    /\ \E db_ok \in BOOLEAN :
         jobs' = IF db_ok
                   THEN UpdateJob(j, [status |-> initial_error[j],
                                      end_time |-> "set"])
                   ELSE jobs
    /\ pc' = [pc EXCEPT ![j] = "returned"]
    /\ UNCHANGED << csv_file, rate_vars, rate_limit_lock, failed_emails,
                    locals, exc, raised, smtp_calls, transport >>

\* What the SMTP calls of the setup can raise.
ConnectRaises(use_ssl) ==
    { "SMTPConnectError", "SMTPServerDisconnected", "gaierror", "timeout",
      "ConnectionRefusedError" }
    \cup (IF use_ssl THEN { "SSLError" } ELSE {})
StartTLSRaises == { "SSLError", "SMTPException", "SMTPServerDisconnected" }
LoginRaises ==
    { "SMTPAuthenticationError", "SMTPServerDisconnected", "SMTPException" }

Raise(j, e, where) ==
    /\ exc' = [exc EXCEPT ![j] = e]
    /\ raised' = [raised EXCEPT ![j] = [exc |-> e, at |-> where]]
    /\ pc' = [pc EXCEPT ![j] = "except"]

\* Connect reached although step 1 or 2 left an error (the early return of
\* line 252 missing).
Connect_WithoutEarlyReturn(j) ==
    /\ pc[j] = "check_initial"
    /\ \E use_ssl \in BOOLEAN, use_tls \in BOOLEAN :
         /\ smtp_calls' = [smtp_calls EXCEPT ![j] =
                Append(@, IF use_ssl THEN "SMTP_SSL" ELSE "SMTP")]
         /\ \/ /\ server' = [server EXCEPT ![j] = TRUE]
               /\ pc' = [pc EXCEPT ![j] =
                      IF ~use_ssl /\ use_tls THEN "starttls" ELSE "login"]
               /\ UNCHANGED << exc, raised >>
            \/ /\ \E e \in ConnectRaises(use_ssl) : Raise(j, e, "connect")
               /\ UNCHANGED server
    /\ UNCHANGED << csv_file, rate_vars, rate_limit_lock, jobs, failed_emails,
                    recipients, total_emails, sent_count, failed_count,
                    initial_error, connection_error, email_template,
                    transport >>

\* Step 3, the connection: SMTP_SSL when use_ssl, else SMTP and, when use_tls,
\* STARTTLS next. use_ssl and use_tls are the thread's arguments; they are
\* read here only, so they are drawn here.
Connect(j) ==
    /\ pc[j] = "check_initial"
    /\ initial_error[j] = "None"
    /\ \E use_ssl \in BOOLEAN, use_tls \in BOOLEAN :
         /\ smtp_calls' = [smtp_calls EXCEPT ![j] =
                Append(@, IF use_ssl THEN "SMTP_SSL" ELSE "SMTP")]
         /\ \/ /\ server' = [server EXCEPT ![j] = TRUE]
               /\ pc' = [pc EXCEPT ![j] =
                      IF ~use_ssl /\ use_tls THEN "starttls" ELSE "login"]
               /\ UNCHANGED << exc, raised >>
            \/ /\ \E e \in ConnectRaises(use_ssl) : Raise(j, e, "connect")
               /\ UNCHANGED server
    /\ UNCHANGED << csv_file, rate_vars, rate_limit_lock, jobs, failed_emails,
                    recipients, total_emails, sent_count, failed_count,
                    initial_error, connection_error, email_template,
                    transport >>

StartTLS(j) ==
    /\ pc[j] = "starttls"
    /\ smtp_calls' = [smtp_calls EXCEPT ![j] = Append(@, "starttls")]
    /\ \/ /\ pc' = [pc EXCEPT ![j] = "login"]
          /\ UNCHANGED << exc, raised >>
       \/ \E e \in StartTLSRaises : Raise(j, e, "starttls")
    /\ UNCHANGED << csv_file, rate_vars, rate_limit_lock, jobs, failed_emails,
                    locals, transport >>

\* server.login; with the session open the relay's answers are fixed.
Login(j) ==
    /\ pc[j] = "login"
    /\ smtp_calls' = [smtp_calls EXCEPT ![j] = Append(@, "login")]
    /\ \/ /\ pc' = [pc EXCEPT ![j] = "acquire"]
          /\ \E t \in [1..total_emails[j] -> TransportAnswers] :
                transport' = [transport EXCEPT ![j] = t]
          /\ UNCHANGED << exc, raised >>
       \/ /\ \E e \in LoginRaises : Raise(j, e, "login")
          /\ UNCHANGED transport
    /\ UNCHANGED << csv_file, rate_vars, rate_limit_lock, jobs, failed_emails,
                    locals >>

\* Acquire with an acquire() call ahead of the with statement: the thread
\* takes the lock and then waits for it again.
Acquire_Twice(j) ==
    /\ pc[j] = "acquire"
    /\ rate_limit_lock = {}
    /\ rate_limit_lock' = {j}
    /\ UNCHANGED << csv_file, rate_vars, jobs, failed_emails, locals, exc,
                    raised, smtp_calls, transport, pc >>

\* The send loop's first statement for the first recipient: enter
\* "with rate_limit_lock".
Acquire(j) ==
    /\ pc[j] = "acquire"
    /\ rate_limit_lock = {}
    /\ rate_limit_lock' = {j}
    /\ pc' = [pc EXCEPT ![j] = "window"]
    /\ UNCHANGED << csv_file, rate_vars, jobs, failed_emails, locals, exc,
                    raised, smtp_calls, transport >>

\* WindowCheck with the lock taken by acquire() and released by a release()
\* the exception skips, instead of by the with statement.
WindowCheck_KeepsLock(j) ==
    /\ pc[j] = "window"
    /\ ~NameBound("timedelta")
    /\ Raise(j, "NameError", "rate_limit")
    /\ UNCHANGED << csv_file, rate_vars, rate_limit_lock, jobs, failed_emails, locals,
                    smtp_calls, transport >>

\* "if datetime.now() >= current_hour_start_time + timedelta(hours=1)":
\* the lookup of timedelta raises NameError before anything is compared.
\* Leaving the with block releases the lock; the statement is outside the
\* per-recipient try, so the exception goes to the outer except clauses.
WindowCheck(j) ==
    /\ pc[j] = "window"
    /\ ~NameBound("timedelta")
    /\ rate_limit_lock' = rate_limit_lock \ {j}
    /\ Raise(j, "NameError", "rate_limit")
    /\ UNCHANGED << csv_file, rate_vars, jobs, failed_emails, locals,
                    smtp_calls, transport >>

\* The except clauses of the SMTP try statement.
Except(j) ==
    /\ pc[j] = "except"
    /\ LET h == ExceptFrom(1, exc[j])
       IN  /\ connection_error' = [connection_error EXCEPT ![j] =
                                      h.connection_error]
           /\ exc' = [exc EXCEPT ![j] = h.exc]
    /\ pc' = [pc EXCEPT ![j] = "finally"]
    /\ UNCHANGED << csv_file, rate_vars, rate_limit_lock, jobs, failed_emails,
                    recipients, total_emails, sent_count, failed_count,
                    initial_error, email_template, server, raised, smtp_calls,
                    transport >>

\* The finally block up to the final UPDATE; its sqlite3.Error is printed.
Finally(j) ==
    /\ pc[j] = "finally"
    /\ LET final_status == FinalStatus(connection_error[j], sent_count[j],
                                       failed_count[j], total_emails[j])
           failed == FinalFailedCount(connection_error[j], failed_count[j],
                                      total_emails[j])
           sent == FinalSentCount(connection_error[j], sent_count[j])
       IN  /\ failed_count' = [failed_count EXCEPT ![j] = failed]
           /\ sent_count' = [sent_count EXCEPT ![j] = sent]
           /\ \E db_ok \in BOOLEAN :
                jobs' = IF db_ok
                          THEN UpdateJob(j, [status |-> final_status,
                                             sent_count |-> sent,
                                             failed_count |-> failed,
                                             end_time |-> "set"])
                          ELSE jobs
    /\ pc' = [pc EXCEPT ![j] = "quit"]
    /\ UNCHANGED << csv_file, rate_vars, rate_limit_lock, failed_emails,
                    recipients, total_emails, initial_error, connection_error,
                    email_template, server, exc, raised, smtp_calls,
                    transport >>

\* Quit with the second branch (lines 489-496) missing: no quit() after a
\* setup error.
Quit_OnlyAfterCleanRun(j) ==
    /\ pc[j] = "quit"
    /\ IF server[j] /\ connection_error[j] = "None"
         THEN \E quit_ok \in BOOLEAN :
                smtp_calls' = [smtp_calls EXCEPT ![j] =
                    Append(@, IF quit_ok THEN "quit" ELSE "quit_raised")]
         ELSE UNCHANGED smtp_calls
    /\ pc' = [pc EXCEPT ![j] = IF exc[j] = "none" THEN "returned" ELSE "crashed"]
    /\ UNCHANGED << csv_file, rate_vars, rate_limit_lock, jobs, failed_emails,
                    locals, exc, raised, transport >>

\* The end of the finally block: server.quit() when there is a server, in
\* either branch (480-488 without connection_error, 489-496 with it); when
\* quit() raises, the exception is printed ("quit_raised" records that call).
\* Then the thread returns, or the exception no clause handled leaves it.
Quit(j) ==
    /\ pc[j] = "quit"
    /\ IF server[j]
         THEN \E quit_ok \in BOOLEAN :
                smtp_calls' = [smtp_calls EXCEPT ![j] =
                    Append(@, IF quit_ok THEN "quit" ELSE "quit_raised")]
         ELSE UNCHANGED smtp_calls
    /\ pc' = [pc EXCEPT ![j] = IF exc[j] = "none" THEN "returned" ELSE "crashed"]
    /\ UNCHANGED << csv_file, rate_vars, rate_limit_lock, jobs, failed_emails,
                    locals, exc, raised, transport >>

Next ==
    \E j \in Jobs :
        \/ Submit(j)
        \/ Begin(j)
        \/ ReadCSV(j)
        \/ ReadHTML(j)
        \/ StopEarly(j)
        \/ Connect(j)
        \/ StartTLS(j)
        \/ Login(j)
        \/ Acquire(j)
        \/ WindowCheck(j)
        \/ Except(j)
        \/ Finally(j)
        \/ Quit(j)

Spec == Init /\ [][Next]_vars

\* ------------------------------------------------------------- observations
Finished(j) == pc[j] \in { "returned", "crashed" }

\* The final UPDATE, or the early stop's, reached the job's row.
TerminalPersisted(j) == j \in DOMAIN jobs /\ jobs[j].end_time = "set"

Calls(j, name) == { i \in 1..Len(smtp_calls[j]) : smtp_calls[j][i] = name }

\* The calls of server.quit(), whether they returned or raised.
QuitCalls(j) == Calls(j, "quit") \cup Calls(j, "quit_raised")

\* Connect, STARTTLS when asked for, and login all returned.
SetupSucceeded(j) == Calls(j, "login") # {} /\ raised[j].at # "login"

Answers(j, a) == { i \in 1..Len(transport[j]) : transport[j][i] = a }

\* The messages a pipeline that sends in source order until the session
\* closes gets accepted by this relay: those before the first TransportClosed
\* that the relay accepts.
AcceptedBeforeClose(j) ==
    { i \in Answers(j, "accept") : \A k \in Answers(j, "TransportClosed") : i < k }

FailureRecords(j) ==
    { i \in 1..Len(failed_emails) : failed_emails[i].job_uuid = j }

FailedStatuses ==
    { "Failed: CSV file not found", "Failed: Error reading CSV",
      "Failed: Unexpected error reading CSV", "Failed: HTML template not found",
      "Failed: Error reading HTML", "Failed: All emails",
      "Failed: Unknown (No emails sent or failed)" }
    \cup { ExceptClauses[i].msg : i \in 1..Len(ExceptClauses) }

\* ------------------------------------------------------------------- claims
\* C1: the shared window count never exceeds the limit. It holds with no
\* message ever handed to the relay (no thread gets past the window check),
\* so it says nothing about the limiter.
C1_WindowCountWithinLimit ==
    /\ hourly_sent_count <= SMTP_HOURLY_LIMIT
    /\ \A j \in Jobs : Calls(j, "sendmail") = {}

\* C2: in every reachable state a job's counters satisfy
\* sent + failed <= total, in the thread and in the job's row; a row whose
\* total is not known yet has counted nothing.
C2_CountsWithinTotal ==
    \A j \in DOMAIN jobs :
        /\ sent_count[j] >= 0 /\ failed_count[j] >= 0
        /\ sent_count[j] + failed_count[j] <= total_emails[j]
        /\ IF jobs[j].total_emails = NULL
             THEN jobs[j].sent_count + jobs[j].failed_count = 0
             ELSE jobs[j].sent_count + jobs[j].failed_count
                    <= jobs[j].total_emails

\* A job whose login was refused has persisted failed = total >= 1.
C2_Witness ==
    \E j \in DOMAIN jobs :
        /\ pc[j] = "returned"
        /\ raised[j] = [exc |-> "SMTPAuthenticationError", at |-> "login"]
        /\ jobs[j].total_emails >= 1
        /\ jobs[j].failed_count = jobs[j].total_emails
        /\ jobs[j].sent_count = 0

\* C3: a job whose terminal status is persisted and whose total is known has
\* persisted sent + failed = total.
C3_TerminalCountsSumToTotal ==
    \A j \in DOMAIN jobs :
        (TerminalPersisted(j) /\ jobs[j].total_emails # NULL)
            => jobs[j].sent_count + jobs[j].failed_count = jobs[j].total_emails

\* C4: a slot request made while the window count is below the limit is
\* granted: it does not end in an error.
C4_SlotGrantedBelowLimit ==
    \A j \in Jobs :
        hourly_sent_count < SMTP_HOURLY_LIMIT => raised[j].at # "rate_limit"

\* C5: a job with at least one recipient whose setup succeeded and whose
\* relay accepts every message ends Completed with sent = total, failed = 0.
C5_AllAcceptedCompleted ==
    \A j \in DOMAIN jobs :
        ( /\ Finished(j) /\ TerminalPersisted(j)
          /\ total_emails[j] >= 1
          /\ SetupSucceeded(j)
          /\ Answers(j, "accept") = 1..total_emails[j] )
        => /\ jobs[j].status = "Completed"
           /\ jobs[j].sent_count = jobs[j].total_emails
           /\ jobs[j].failed_count = 0

\* C6: a job whose relay rejects k of its messages, 0 < k < total, accepts
\* the others and never closes the session hands every message to the relay
\* and ends Partial Failure with sent = total - k, failed = k and k failure
\* records.
C6_RejectedOnlyPartialFailure ==
    \A j \in DOMAIN jobs :
        LET k == Cardinality(Answers(j, "SendRejected"))
        IN  ( /\ Finished(j) /\ TerminalPersisted(j)
              /\ SetupSucceeded(j)
              /\ Answers(j, "TransportClosed") = {}
              /\ 0 < k /\ k < total_emails[j] )
            => /\ jobs[j].status = "Partial Failure"
               /\ jobs[j].sent_count = total_emails[j] - k
               /\ jobs[j].failed_count = k
               /\ Cardinality(FailureRecords(j)) = k
               /\ Cardinality(Calls(j, "sendmail")) = total_emails[j]

\* C7: a job whose relay accepts at least one message before it refuses
\* another or closes the session ends Partial Failure with sent > 0 and
\* failed > 0.
C7_SuccessAndFailurePartial ==
    \A j \in DOMAIN jobs :
        ( /\ Finished(j) /\ TerminalPersisted(j)
          /\ SetupSucceeded(j)
          /\ AcceptedBeforeClose(j) # {}
          /\ Answers(j, "SendRejected") \cup Answers(j, "TransportClosed") # {} )
        => /\ jobs[j].status = "Partial Failure"
           /\ jobs[j].sent_count > 0
           /\ jobs[j].failed_count > 0

\* C8: a job whose relay closes the session ends with sent = the number of
\* messages accepted before the close and failed = total minus that number.
C8_ClosedKeepsSentCount ==
    \A j \in DOMAIN jobs :
        ( /\ Finished(j) /\ TerminalPersisted(j)
          /\ SetupSucceeded(j)
          /\ Answers(j, "TransportClosed") # {} )
        => /\ jobs[j].sent_count = Cardinality(AcceptedBeforeClose(j))
           /\ jobs[j].failed_count
                = total_emails[j] - Cardinality(AcceptedBeforeClose(j))

\* C9: no write to a job's row lowers its sent-count or its failed-count. It
\* holds with the counts written only by the insert and by the final UPDATE
\* (no thread reaches the loop's progress writes).
C9_CountsNeverDecrease ==
    [][\A j \in DOMAIN jobs :
          /\ jobs'[j].sent_count >= jobs[j].sent_count
          /\ jobs'[j].failed_count >= jobs[j].failed_count]_vars

\* C10: a job whose connect, STARTTLS or login fails with an authentication
\* error, a DNS failure, a timeout or a TLS handshake failure ends with a
\* Failed status, failed = total, sent = 0 and no sendmail call.
C10_SetupFailureAllFailed ==
    \A j \in DOMAIN jobs :
        ( /\ Finished(j) /\ TerminalPersisted(j)
          /\ raised[j].at \in { "connect", "starttls", "login" }
          /\ raised[j].exc \in { "SMTPAuthenticationError", "SMTPConnectError",
                                 "gaierror", "timeout", "SSLError" } )
        => /\ jobs[j].status \in FailedStatuses
           /\ jobs[j].failed_count = jobs[j].total_emails
           /\ jobs[j].sent_count = 0
           /\ Calls(j, "sendmail") = {}

\* The row's status is one the pipeline leaves behind only when it is done.
TerminalStatus(j) == jobs[j].status \notin { "Pending", "Running" }

\* C11: a job whose pipeline began (its Running write with the start time
\* went through) and has finished has a terminal status and an end timestamp
\* persisted.
C11_FinishedJobIsTerminal ==
    \A j \in DOMAIN jobs :
        (Finished(j) /\ jobs[j].start_time = "set")
            => TerminalPersisted(j) /\ TerminalStatus(j)

\* The values initial_error takes when the template cannot be opened or
\* compiled, and when the recipient file cannot be read.
TemplateErrors ==
    { "Failed: HTML template not found", "Failed: Error reading HTML" }
SourceErrors ==
    { "Failed: CSV file not found", "Failed: Error reading CSV",
      "Failed: Unexpected error reading CSV" }

\* C12: a job whose recipient file parsed to zero valid recipients (its row
\* shows total_emails = 0) never opens or compiles the template and never
\* makes an SMTP call, and the terminal status it persists is
\* 'Completed (No valid recipients found)'.
C12_NoRecipientsCompleted ==
    \A j \in DOMAIN jobs :
        jobs[j].total_emails = 0
            => /\ email_template[j] = "None"
               /\ initial_error[j] \notin TemplateErrors
               /\ smtp_calls[j] = << >>
               /\ pc[j] \notin { "starttls", "login", "acquire", "window",
                                 "except", "finally", "quit", "crashed" }
               /\ TerminalPersisted(j)
                    => jobs[j].status = "Completed (No valid recipients found)"

\* A job with no valid recipient has returned with its terminal status.
C12_Witness ==
    \E j \in DOMAIN jobs :
        /\ pc[j] = "returned"
        /\ jobs[j].total_emails = 0
        /\ recipients[j] = << >>
        /\ jobs[j].status = "Completed (No valid recipients found)"
        /\ jobs[j].end_time = "set"

\* C13: a job whose recipient file could not be read or parsed, or whose
\* template could not be opened or compiled, makes no SMTP call and never
\* enters the SMTP block; when it has finished and its terminal write went
\* through, its status is that Failed reason.
C13_FileFailureEndsFailed ==
    \A j \in Jobs :
        initial_error[j] \in SourceErrors \cup TemplateErrors
            => /\ smtp_calls[j] = << >>
               /\ ~server[j]
               /\ pc[j] \in { "read_html", "check_initial", "returned" }
               /\ (Finished(j) /\ TerminalPersisted(j))
                    => /\ jobs[j].status = initial_error[j]
                       /\ jobs[j].status \in FailedStatuses

\* One job has ended on a recipient file without the Email column, the other
\* on a template jinja2 cannot compile.
C13_Witness ==
    /\ \A j \in Jobs : pc[j] = "returned" /\ TerminalPersisted(j)
    /\ \E j \in Jobs : jobs[j].status = "Failed: Error reading CSV"
    /\ \E j \in Jobs : /\ jobs[j].status = "Failed: Error reading HTML"
                        /\ jobs[j].total_emails >= 1

\* C15: once a job's terminal status is persisted, no step of its own thread
\* (server.quit() included) or of another job's thread changes the status or
\* the counts of its row.
C15_TerminalRowFrozen ==
    [][\A j \in DOMAIN jobs :
          TerminalPersisted(j)
            => /\ jobs'[j].status = jobs[j].status
               /\ jobs'[j].sent_count = jobs[j].sent_count
               /\ jobs'[j].failed_count = jobs[j].failed_count
               /\ jobs'[j].total_emails = jobs[j].total_emails]_vars

\* Both jobs have persisted a terminal status, with different outcomes, and
\* one of them has closed its SMTP session after its terminal write.
C15_Witness ==
    /\ \A j \in Jobs : Finished(j) /\ TerminalPersisted(j)
    /\ \E j \in Jobs : pc[j] = "crashed" /\ Calls(j, "quit") # {}
    /\ \E j, k \in Jobs :
          /\ jobs[j].status # jobs[k].status
          /\ jobs[j].failed_count # jobs[k].failed_count

\* The positions whose next step is an SMTP network call: SMTP() or
\* SMTP_SSL(), starttls(), login(), quit().
NetworkCallSteps == { "check_initial", "starttls", "login", "quit" }

\* C16: a thread holds rate_limit_lock only between entering the with block
\* and leaving it: never at a step that makes an SMTP network call, and never
\* once it has finished.
C16_LockOnlyInCriticalSection ==
    \A j \in Jobs :
        /\ j \in rate_limit_lock => pc[j] = "window"
        /\ pc[j] \in NetworkCallSteps => j \notin rate_limit_lock

\* A thread that has been through the critical section is about to call
\* server.quit() while the other thread holds the lock.
C16_Witness ==
    \E j, k \in Jobs :
        /\ j # k
        /\ pc[j] = "quit" /\ server[j] /\ raised[j].at = "rate_limit"
        /\ rate_limit_lock = {k}

\* The exception classes the except clauses of lines 411-430 name; any other
\* class is left to the clause "except Exception" of line 433.
NamedErrorClasses ==
    { ExceptClauses[i].cls : i \in 1..(Len(ExceptClauses) - 1) }

Unexpected(e) ==
    e # "none" /\ \A cls \in NamedErrorClasses : ~IsInstance(e, cls)

\* C21: a job whose SMTP setup or send loop raised an exception of none of
\* the named classes ends with the exception handled (it does not leave the
\* thread), a Failed status, and persisted counts that account for the
\* failure: with nothing sent, failed = total.
C21_UnexpectedFailureRecorded ==
    \A j \in DOMAIN jobs :
        (Finished(j) /\ TerminalPersisted(j) /\ Unexpected(raised[j].exc))
            => /\ pc[j] = "returned"
               /\ jobs[j].status \in FailedStatuses
               /\ jobs[j].sent_count + jobs[j].failed_count
                    = jobs[j].total_emails

\* The terminal statuses: Completed, the two no-recipient labels, Partial
\* Failure and the Failed variants.
TerminalStatuses ==
    { "Completed", "Completed (No valid recipients found)",
      "Completed (No recipients)", "Partial Failure" } \cup FailedStatuses

\* C22: every write to a job's row follows Pending -> Running -> terminal.
\* The first write to the row sets Running together with the start time,
\* while the total is still unknown (the file is not parsed yet); the only
\* other change of status is from Running to a terminal status, together
\* with the end time; a terminal status never changes.
C22_StatusStateMachine ==
    [][\A j \in DOMAIN jobs :
          /\ (jobs[j] = NewJob /\ jobs'[j] # jobs[j])
                => /\ jobs'[j].status = "Running"
                   /\ jobs'[j].start_time = "set"
                   /\ jobs'[j].total_emails = NULL
                   /\ jobs'[j].end_time = "NULL"
          /\ jobs'[j].status # jobs[j].status
                => \/ jobs[j].status = "Pending" /\ jobs'[j].status = "Running"
                   \/ /\ jobs[j].status = "Running"
                      /\ jobs'[j].status \in TerminalStatuses
                      /\ jobs'[j].end_time = "set"]_vars

\* A row has gone Pending -> Running -> terminal: both timestamps are set and
\* the status is a Failed variant written by the finally block.
C22_Witness ==
    \E j \in DOMAIN jobs :
        /\ jobs[j].start_time = "set" /\ jobs[j].end_time = "set"
        /\ jobs[j].status = "Failed: SMTP Authentication Error"
        /\ jobs[j].total_emails >= 1

\* C24: a thread that obtained an SMTP object calls server.quit() exactly
\* once, as its last SMTP call and after the finally block's terminal write
\* was made; a thread without one never calls it; and the step that calls
\* quit(), whether quit() returns or raises, leaves the jobs table as it is.
C24_QuitOnceAfterFinalWrite ==
    /\ [](\A j \in Jobs :
            /\ Cardinality(QuitCalls(j)) <= 1
            /\ QuitCalls(j) # {}
                 => /\ server[j] /\ Finished(j)
                    /\ QuitCalls(j) = { Len(smtp_calls[j]) }
            /\ (Finished(j) /\ server[j]) => QuitCalls(j) # {}
            /\ pc[j] \in { "except", "finally", "quit" } => QuitCalls(j) = {})
    /\ [][\A j \in Jobs :
             smtp_calls'[j] # smtp_calls[j]
             /\ smtp_calls'[j][Len(smtp_calls'[j])] \in { "quit", "quit_raised" }
                => jobs' = jobs]_vars

\* One job's quit() raised after a refused login, the other's returned after
\* the NameError of the window check; both rows are terminal.
C24_Witness ==
    \E j, k \in DOMAIN jobs :
        /\ Calls(j, "quit_raised") # {} /\ raised[j].at = "login"
        /\ TerminalPersisted(j) /\ jobs[j].failed_count = jobs[j].total_emails
        /\ Calls(k, "quit") # {} /\ raised[k].at = "rate_limit"
        /\ TerminalPersisted(k)

\* ------------------------------------------------- the parsing specification
\* Step 1 on its own: one job's thread, started and about to open its
\* recipient file, and the file it was given.
OtherName  == << "B" >>
OtherEmail == << "c", "@", "d" >>
BlankEmail == << " ", " " >>

ParseRowSet ==
    RowSet \cup { << OtherName, OtherEmail >>, << PaddedName, BlankEmail >> }

ParseFiles ==
    { MissingFile }
    \cup { [exists |-> TRUE, fieldnames |-> h, rows |-> << >>] : h \in BadHeaders }
    \cup { [exists |-> TRUE, fieldnames |-> h, rows |-> r] :
             h \in GoodHeaders, r \in SeqsUpTo(ParseRowSet, MaxRows) }

InitParse ==
    /\ hourly_sent_count = 0
    /\ current_hour_start_time = 0
    /\ rate_limit_lock = {}
    /\ jobs = << [NewJob EXCEPT !.status = "Running", !.start_time = "set"] >>
    /\ failed_emails = << >>
    /\ pc = [j \in Jobs |-> IF j = 1 THEN "read_csv" ELSE "idle"]
    /\ recipients = [j \in Jobs |-> << >>]
    /\ total_emails = [j \in Jobs |-> 0]
    /\ sent_count = [j \in Jobs |-> 0]
    /\ failed_count = [j \in Jobs |-> 0]
    /\ initial_error = [j \in Jobs |-> "None"]
    /\ connection_error = [j \in Jobs |-> "None"]
    /\ email_template = [j \in Jobs |-> "None"]
    /\ server = [j \in Jobs |-> FALSE]
    /\ exc = [j \in Jobs |-> "none"]
    /\ raised = [j \in Jobs |-> [exc |-> "none", at |-> "none"]]
    /\ smtp_calls = [j \in Jobs |-> << >>]
    /\ transport = [j \in Jobs |-> << >>]
    /\ \E f \in ParseFiles :
          csv_file = [j \in Jobs |-> IF j = 1 THEN f ELSE NotFollowed]

\* Step 1 on the file under the job's csv_path.
ReadUploaded(j) ==
    /\ csv_file[j] # NotFollowed
    /\ \E db_ok \in BOOLEAN : ReadCSVFile(j, csv_file[j], db_ok)

NextParse == \E j \in Jobs : ReadUploaded(j)

SpecParse == InitParse /\ [][NextParse]_vars

\* What the recipient list is to be, from the rows alone: a field a row does
\* not have is empty; a field trimmed is what lies between its first and its
\* last character that is not whitespace.
Trimmed(s) ==
    LET solid == { i \in 1..Len(s) : s[i] # " " }
        first == CHOOSE i \in solid : \A k \in solid : i <= k
        last  == CHOOSE i \in solid : \A k \in solid : i >= k
    IN  IF solid = {} THEN << >> ELSE SubSeq(s, first, last)

FieldOf(row, col) == IF col <= Len(row) THEN row[col] ELSE << >>

HeaderComplete(f) ==
    /\ \E i \in 1..Len(f.fieldnames) : Lower[f.fieldnames[i]] = "firstname"
    /\ \E i \in 1..Len(f.fieldnames) : Lower[f.fieldnames[i]] = "email"

ValidRows(f) ==
    LET ec == ColumnOf(f.fieldnames, "email")
        fc == ColumnOf(f.fieldnames, "firstname")
        HasAddress(row) ==
            LET e == Trimmed(FieldOf(row, ec))
            IN  e # << >> /\ \E i \in 1..Len(e) : e[i] = "@"
        kept == SelectSeq(f.rows, HasAddress)
    IN  [i \in 1..Len(kept) |->
            [email |-> Trimmed(FieldOf(kept[i], ec)),
             first_name |-> Trimmed(FieldOf(kept[i], fc))]]

\* After step 1 on a readable file, the recipient list is, in row
\* order, the rows whose trimmed email is non-empty and contains "@", both
\* fields trimmed, and the total is their number; a header without the
\* FirstName or the Email column gives no list and a Failed reason.
RecipientsAsClaimed(j) ==
        (pc[j] = "read_html" /\ csv_file[j].exists)
            => IF HeaderComplete(csv_file[j])
                 THEN /\ recipients[j] = ValidRows(csv_file[j])
                      /\ total_emails[j] = Len(ValidRows(csv_file[j]))
                      /\ jobs[j].total_emails \in
                            { NULL, Len(ValidRows(csv_file[j])) }
                 ELSE /\ recipients[j] = << >>
                      /\ initial_error[j] = "Failed: Error reading CSV"

\* C23: the recipient list of every job is as claimed, whatever rows the
\* file has: valid rows in row order, trimmed, skipped rows not counted, and
\* a Failed reason for a header without the FirstName or the Email column.
C23_RecipientsAreValidRowsInOrder == \A j \in Jobs : RecipientsAsClaimed(j)

\* --------------------------------------------------------------- scheduling
\* The scheduling specification follows the threads over the recipient files
\* of at most MaxFairRows rows.
FairFiles == { f \in CsvFiles : Len(f.rows) <= MaxFairRows }

ReadCSVFair(j) ==
    \E f \in FairFiles, db_ok \in BOOLEAN : ReadCSVFile(j, f, db_ok)

\* The steps of job j's thread. The interpreter keeps scheduling a thread
\* that can run, and a thread waiting for rate_limit_lock gets it once it
\* stays free: weak fairness on each thread's steps. Submitting a job is the
\* user's step and has no fairness.
ThreadStep(j) ==
    \/ Begin(j) \/ ReadCSVFair(j) \/ ReadHTML(j) \/ StopEarly(j) \/ Connect(j)
    \/ StartTLS(j) \/ Login(j) \/ Acquire(j) \/ WindowCheck(j) \/ Except(j)
    \/ Finally(j) \/ Quit(j)

NextFair == \E j \in Jobs : Submit(j) \/ ThreadStep(j)

FairSpec ==
    Init /\ [][NextFair]_vars /\ \A j \in Jobs : WF_vars(ThreadStep(j))

C27_LockReleasedOnEveryExit ==
    /\ Cardinality(rate_limit_lock) <= 1
    /\ \A j \in Jobs :
          /\ raised[j].at = "rate_limit" => j \notin rate_limit_lock
          /\ Finished(j) => j \notin rate_limit_lock
          /\ (pc[j] = "acquire" /\ rate_limit_lock # {})
                => \E k \in rate_limit_lock : k # j /\ ENABLED WindowCheck(k)

\* A thread has died of the exception raised inside its critical section,
\* and the other thread owns the lock after it.
C27_Witness ==
    \E j, k \in Jobs :
        /\ j # k
        /\ pc[j] = "crashed" /\ raised[j].at = "rate_limit"
        /\ rate_limit_lock = {k} /\ pc[k] = "window"

====
